---- MODULE Spec2Model ----
(***************************************************************************)
(* SimpleCurses++ (simplecurses++.hh): the Window / Text / Screen tree     *)
(* over a curses terminal.  The terminal is one grid of cells; every       *)
(* WINDOW made by derwin shares the cells of the window it was derived     *)
(* from, so a WINDOW is an absolute rectangle of that grid.                *)
(***************************************************************************)
EXTENDS Integers, Sequences, FiniteSets, TLC

(* ---- bounds of the model ---- *)
ScreenRows == 3
ScreenCols == 4
MaxCoord == 1
MaxDim == 3
MaxTextLen == 2
MaxChildren == 2

Names == {"p", "q"}
Coords == 0..MaxCoord
Dims == 1..MaxDim
TextLens == 1..MaxTextLen

(* ---- curses.h ---- *)
ERR == -1

Blank == " "
BoxChar == "#"

VARIABLES wins, cells, proc, calls, last

vars == <<wins, cells, proc, calls, last>>

(* a WINDOW*: NULL, or a rectangle of the terminal *)
NULL == [ok |-> FALSE, begy |-> 0, begx |-> 0, lines |-> 0, cols |-> 0]

initscr == [ok |-> TRUE, begy |-> 0, begx |-> 0, lines |-> ScreenRows, cols |-> ScreenCols]

(* a std::unique_ptr<Text> that has been moved from *)
NullText == [null |-> TRUE, m_name |-> "", m_x |-> 0, m_y |-> 0, m_text |-> <<>>]

Text(name, x, y, text) ==
  [null |-> FALSE, m_name |-> name, m_x |-> x, m_y |-> y, m_text |-> text]

(* the string literal of n characters a caller passes *)
Content(n) == [i \in 1..n |-> "x"]

getmaxy(win) == IF win.ok THEN win.lines ELSE ERR

getmaxx(win) == IF win.ok THEN win.cols ELSE ERR

(* Window::Window: the size is read from the WINDOW and a border takes one
   row and one column off it *)
Window(name, x, y, border, window) ==
  [m_name |-> name, m_x |-> x, m_y |-> y, m_border |-> border,
   m_window |-> window,
   m_rows |-> IF border THEN getmaxy(window) - 1 ELSE getmaxy(window),
   m_cols |-> IF border THEN getmaxx(window) - 1 ELSE getmaxx(window),
   m_subwindows |-> <<>>, m_texts |-> <<>>]

Screen == Window("stdscr", 0, 0, FALSE, initscr)

(* derwin(orig, nlines, ncols, begin_y, begin_x) *)
derwin(orig, nlines, ncols, begin_y, begin_x) ==
  IF ~orig.ok \/ begin_y < 0 \/ begin_x < 0 \/ nlines < 0 \/ ncols < 0
  THEN NULL
  ELSE IF begin_y + nlines > orig.lines \/ begin_x + ncols > orig.cols
  THEN NULL
  ELSE [ok |-> TRUE, begy |-> orig.begy + begin_y, begx |-> orig.begx + begin_x,
        lines |-> IF nlines = 0 THEN orig.lines - begin_y ELSE nlines,
        cols |-> IF ncols = 0 THEN orig.cols - begin_x ELSE ncols]

(* the cells of the terminal a WINDOW covers *)
WinCells(win) ==
  IF ~win.ok THEN {}
  ELSE {<<r, c>> : r \in win.begy..(win.begy + win.lines - 1),
                   c \in win.begx..(win.begx + win.cols - 1)}

(* box(win, 0, 0): the outline of the WINDOW *)
BoxCells(win) ==
  {rc \in WinCells(win) :
      \/ rc[1] = win.begy \/ rc[1] = win.begy + win.lines - 1
      \/ rc[2] = win.begx \/ rc[2] = win.begx + win.cols - 1}

box(cs, win) == [rc \in DOMAIN cs |-> IF rc \in BoxCells(win) THEN BoxChar ELSE cs[rc]]

InWindow(win, y, x) == win.ok /\ y >= 0 /\ x >= 0 /\ y < win.lines /\ x < win.cols

(* the cells n characters written from (y, x) of the WINDOW land on: the
   cursor wraps at the right margin, and on the last cell of a WINDOW that
   does not scroll waddch fails and the cursor stays *)
RunCells(win, y, x, n) ==
  {rc \in WinCells(win) :
     LET q == (rc[1] - win.begy) * win.cols + (rc[2] - win.begx)
     IN q >= y * win.cols + x /\ q < y * win.cols + x + n}

(* mvwaddstr(win, y, x, str): nothing is written when the move fails *)
mvwaddstr(cs, win, y, x, str) ==
  IF ~InWindow(win, y, x) THEN cs
  ELSE [rc \in DOMAIN cs |->
          IF rc \in RunCells(win, y, x, Len(str))
          THEN str[1 + ((rc[1] - win.begy) * win.cols + (rc[2] - win.begx))
                     - (y * win.cols + x)]
          ELSE cs[rc]]

(* wmove(win, y, x) and then n times waddch(win, ' '); every Text in m_texts
   passed the test of addText, so its (y, x) is inside the WINDOW *)
BlankRun(cs, win, y, x, n) ==
  IF ~InWindow(win, y, x) THEN cs
  ELSE [rc \in DOMAIN cs |-> IF rc \in RunCells(win, y, x, n) THEN Blank ELSE cs[rc]]

(* ---- Window::createWindow ---- *)

(* the test that throws CursesException("Subwindow too large.") *)
SubwindowTooLarge(W, relativex, relativey, rows, cols) ==
  ((relativex + rows) > W.m_rows) \/ ((relativey + cols) > W.m_cols)

(* the WINDOW the child is built on *)
ChildWINDOW(W, relativex, relativey, rows, cols) ==
  derwin(W.m_window, cols, rows, relativey, relativex)

(* the last call made on the tree: the operation and how it ended *)
Called(op, result) == [op |-> op, result |-> result]

createWindow(w, name, relativex, relativey, rows, cols, border) ==
  /\ proc = "running"
  /\ LET W == wins[w]
     IN IF SubwindowTooLarge(W, relativex, relativey, rows, cols)
        THEN /\ last' = Called("createWindow", "CursesException")
             /\ UNCHANGED <<wins, cells>>
        ELSE LET win == ChildWINDOW(W, relativex, relativey, rows, cols)
                 id == Len(wins) + 1
             IN /\ cells' = IF border THEN box(cells, win) ELSE cells
                /\ wins' = Append([wins EXCEPT ![w].m_subwindows = Append(@, id)],
                                  Window(name, relativex, relativey, border, win))
                /\ last' = Called("createWindow", "ok")
  /\ calls' = <<>>
  /\ UNCHANGED proc

(* ---- Window::addText ---- *)

(* the coordinate after "if (m_border) { relativex++; relativey++; }" *)
Inset(W, relative) == IF W.m_border THEN relative + 1 ELSE relative

(* the test that throws CursesException("Text doesn't fit in window."),
   on the coordinates already moved by the inset *)
TextDoesntFit(W, relativex, relativey, text) ==
  ((relativex + 1) > W.m_cols) \/ ((relativey + Len(text)) > W.m_rows)

(* addText as it would be with the Text registered and painted before the
   test: a throw then leaves the Text and its characters behind *)
addTextEffect_TestLast(cs, W, name, relativex, relativey, text) ==
  LET x == Inset(W, relativex)
      y == Inset(W, relativey)
  IN [throws |-> TextDoesntFit(W, x, y, text),
      texts |-> Append(W.m_texts, Text(name, x, y, text)),
      cells |-> mvwaddstr(cs, W.m_window, y, x, text)]

(* what addText leaves behind: whether it threw, m_texts and the cells *)
addTextEffect(cs, W, name, relativex, relativey, text) ==
  LET x == Inset(W, relativex)
      y == Inset(W, relativey)
  IN IF TextDoesntFit(W, x, y, text)
     THEN [throws |-> TRUE, texts |-> W.m_texts, cells |-> cs]
     ELSE [throws |-> FALSE,
           texts |-> Append(W.m_texts, Text(name, x, y, text)),
           cells |-> mvwaddstr(cs, W.m_window, y, x, text)]

addText(w, name, relativex, relativey, len) ==
  /\ proc = "running"
  /\ LET e == addTextEffect(cells, wins[w], name, relativex, relativey, Content(len))
     IN /\ wins' = [wins EXCEPT ![w].m_texts = e.texts]
        /\ cells' = e.cells
        /\ last' = Called("addText", IF e.throws THEN "CursesException" ELSE "ok")
  /\ calls' = <<>>
  /\ UNCHANGED proc

(* ---- Window::removeText ---- *)

(* std::find_if over m_texts with the lambda's test: the first index whose
   text has the name, Len + 1 when there is none *)
find_if(v, name) ==
  IF \E i \in 1..Len(v) : v[i].m_name = name
  THEN CHOOSE i \in 1..Len(v) :
         /\ v[i].m_name = name
         /\ \A j \in 1..(i - 1) : v[j].m_name # name
  ELSE Len(v) + 1

(* the loop of std::remove_if after find_if: an element that is kept is
   move-assigned to *first, which deletes the Text *first held and leaves the
   source unique_ptr null *)
RECURSIVE remove_loop(_, _, _, _)
remove_loop(v, first, i, name) ==
  IF i > Len(v) THEN v
  ELSE IF v[i].m_name # name
       THEN remove_loop([v EXCEPT ![first] = v[i], ![i] = NullText], first + 1, i + 1, name)
       ELSE remove_loop(v, first, i + 1, name)

(* m_texts after std::remove_if; the iterator it returns is dropped and
   nothing is erased *)
remove_if(v, name) ==
  LET first == find_if(v, name)
  IN IF first > Len(v) THEN v ELSE remove_loop(v, first, first + 1, name)

(* the lambda runs once on every element, in order, and blanks the element's
   cells before it compares the name *)
RECURSIVE BlankTexts(_, _, _, _)
BlankTexts(cs, win, v, n) ==
  IF n = 0 THEN cs
  ELSE LET t == v[n]
       IN BlankRun(BlankTexts(cs, win, v, n - 1), win, t.m_y, t.m_x, Len(t.m_text))

(* the elements the lambda reaches before it dereferences a null unique_ptr *)
BeforeNull(v) ==
  IF \E i \in 1..Len(v) : v[i].null
  THEN (CHOOSE i \in 1..Len(v) : v[i].null /\ \A j \in 1..(i - 1) : ~v[j].null) - 1
  ELSE Len(v)

(* what removeText leaves behind when no element is null *)
removeTextEffect(cs, W, name) ==
  [texts |-> remove_if(W.m_texts, name),
   cells |-> BlankTexts(cs, W.m_window, W.m_texts, Len(W.m_texts))]

(* text->y() on a null unique_ptr is undefined: the builds end the process,
   by the signal of the null read or by the library's assertion; the texts
   ahead of the null element have been blanked by then, and nothing runs on
   the tree afterwards *)
NullDeref == {"SIGSEGV", "SIGABRT"}

removeText(w, name) ==
  /\ proc = "running"
  /\ LET W == wins[w]
     IN IF BeforeNull(W.m_texts) < Len(W.m_texts)
        THEN /\ \E sig \in NullDeref : proc' = sig
             /\ cells' = BlankTexts(cells, W.m_window, W.m_texts, BeforeNull(W.m_texts))
             /\ last' = Called("removeText", "killed")
             /\ UNCHANGED wins
        ELSE LET e == removeTextEffect(cells, W, name)
             IN /\ wins' = [wins EXCEPT ![w].m_texts = e.texts]
                /\ cells' = e.cells
                /\ last' = Called("removeText", "ok")
                /\ UNCHANGED proc
  /\ calls' = <<>>

(* ---- Window::update ---- *)

RECURSIVE update(_, _)
RECURSIVE updateAll(_, _, _)

(* std::for_each over m_subwindows from element i on *)
updateAll(ws, subs, i) ==
  IF i > Len(subs) THEN <<>>
  ELSE update(ws, subs[i]) \o updateAll(ws, subs, i + 1)

(* update() as it would be with the window's own refresh ahead of the loop
   over its subwindows *)
update_SelfFirst(ws, w) ==
  <<[call |-> "wsyncup", w |-> w], [call |-> "wrefresh", w |-> w]>>
    \o updateAll(ws, ws[w].m_subwindows, 1)

(* the curses calls of update() on window w, in the order they are made *)
update(ws, w) ==
  updateAll(ws, ws[w].m_subwindows, 1)
    \o <<[call |-> "wsyncup", w |-> w], [call |-> "wrefresh", w |-> w]>>

Update(w) ==
  /\ proc = "running"
  /\ calls' = update(wins, w)
  /\ last' = Called("update", "ok")
  /\ UNCHANGED <<wins, cells, proc>>

(* ---- Window::~Window and Screen::~Screen ---- *)

RECURSIVE DestroyWindow(_, _)
RECURSIVE DestroyAll(_, _, _)

(* ~vector<WindowPtr>: the elements from i on are deleted *)
DestroyAll(ws, subs, i) ==
  IF i > Len(subs) THEN <<>>
  ELSE DestroyWindow(ws, subs[i]) \o DestroyAll(ws, subs, i + 1)

(* ~Window: the body runs delwin(m_window), then the members go, m_texts
   before m_subwindows *)
DestroyWindow(ws, w) ==
  <<[call |-> "delwin", w |-> w]>> \o DestroyAll(ws, ws[w].m_subwindows, 1)

(* ~Screen: the body runs endwin(), then ~Window of the base *)
DestroyScreen(ws) == <<[call |-> "endwin", w |-> 1]>> \o DestroyWindow(ws, 1)

(* the Screen of main() goes out of scope *)
Exit ==
  /\ proc = "running"
  /\ calls' = DestroyScreen(wins)
  /\ proc' = "exited"
  /\ last' = Called("~Screen", "ok")
  /\ UNCHANGED <<wins, cells>>

(* ---- the program ---- *)

Grid == (0..(ScreenRows - 1)) \X (0..(ScreenCols - 1))

Init ==
  /\ wins = <<Screen>>
  /\ cells = [rc \in Grid |-> Blank]
  /\ proc = "running"
  /\ calls = <<>>
  /\ last = Called("Screen", "ok")

(* the Text objects held by the first n windows *)
RECURSIVE NumTexts(_, _)
NumTexts(ws, n) ==
  IF n = 0 THEN 0
  ELSE NumTexts(ws, n - 1) + Cardinality({i \in 1..Len(ws[n].m_texts) : ~ws[n].m_texts[i].null})

(* the Window and Text objects the tree holds below the Screen *)
NumChildren(ws) == (Len(ws) - 1) + NumTexts(ws, Len(ws))

(* the callers stop adding at MaxChildren: there createWindow is not called,
   and addText only with a text that is refused *)
Next ==
  \/ /\ NumChildren(wins) < MaxChildren
     /\ \E w \in 1..Len(wins), name \in Names, x \in Coords, y \in Coords,
           rows \in Dims, cols \in Dims, border \in BOOLEAN :
          createWindow(w, name, x, y, rows, cols, border)
  \/ \E w \in 1..Len(wins), x \in Coords, y \in Coords, len \in TextLens :
       /\ \/ NumChildren(wins) < MaxChildren
          \/ TextDoesntFit(wins[w], Inset(wins[w], x), Inset(wins[w], y), Content(len))
       /\ \E name \in Names : addText(w, name, x, y, len)
  \/ \E w \in 1..Len(wins), name \in Names : removeText(w, name)
  \/ \E w \in 1..Len(wins) : Update(w)
  \/ Exit

Spec == Init /\ [][Next]_vars

(* ---- properties ---- *)

Windows == 1..Len(wins)

(* the live Text elements of a window *)
LiveTexts(W) == {i \in 1..Len(W.m_texts) : ~W.m_texts[i].null}

(* the live Text elements of a window registered under a name *)
Named(W, name) == {i \in LiveTexts(W) : W.m_texts[i].m_name = name}

(* the cells of the terminal a Text of a window was painted on *)
TextCells(W, t) == RunCells(W.m_window, t.m_y, t.m_x, Len(t.m_text))

(* the cells a step has changed *)
Changed == {rc \in Grid : cells'[rc] # cells[rc]}

(* a window and the windows below it *)
RECURSIVE Subtree(_, _)
Subtree(ws, w) ==
  {w} \cup UNION {Subtree(ws, ws[w].m_subwindows[i]) : i \in 1..Len(ws[w].m_subwindows)}

(* the positions in calls of one curses call on one window *)
CallsOf(call, w) == {i \in 1..Len(calls) : calls[i] = [call |-> call, w |-> w]}

At(call, w) == CHOOSE i \in CallsOf(call, w) : TRUE

(* C1: createWindow throws the bounds error exactly when x + cols exceeds the
   parent's cols() or y + rows exceeds the parent's rows(), and succeeds in
   every other case. *)
C1_ThrowsExactlyOutOfBounds ==
  [][\A w \in Windows, name \in Names, x \in Coords, y \in Coords,
        rows \in Dims, cols \in Dims, border \in BOOLEAN :
       createWindow(w, name, x, y, rows, cols, border)
         => ((last'.result = "CursesException")
               <=> ((x + cols > wins[w].m_cols) \/ (y + rows > wins[w].m_rows)))]_vars

(* C2: when createWindow succeeds, the child it returns reports
   rows() = rows and cols() = cols, with and without a border. *)
C2_ChildReportsRequestedSize ==
  [][\A w \in Windows, name \in Names, x \in Coords, y \in Coords,
        rows \in Dims, cols \in Dims, border \in BOOLEAN :
       (createWindow(w, name, x, y, rows, cols, border) /\ last'.result = "ok")
         => (/\ wins'[Len(wins')].m_rows = rows
             /\ wins'[Len(wins')].m_cols = cols)]_vars

(* C3: addText throws the bounds error whenever the inset-adjusted
   x + length(text) exceeds the parent's cols() or the text's row lies outside
   the parent's rows(), and then paints nothing; a text that is accepted is
   painted on its one row, inside the parent's usable columns. *)
C3_TextOutOfBoundsThrows ==
  [][\A w \in Windows, name \in Names, x \in Coords, y \in Coords, len \in TextLens :
       addText(w, name, x, y, len)
         => LET W == wins[w]
                ax == Inset(W, x)
                ay == Inset(W, y)
            IN /\ ((ax + len > W.m_cols) \/ (ay + 1 > W.m_rows))
                    => (last'.result = "CursesException" /\ cells' = cells)
               /\ (last'.result = "ok")
                    => \A rc \in Changed :
                         /\ rc[1] = W.m_window.begy + ay
                         /\ rc[2] >= W.m_window.begx + ax
                         /\ rc[2] < W.m_window.begx + W.m_cols]_vars

(* C4: a createWindow or addText that throws the bounds error leaves the tree
   as it was: the same child windows and texts in every window, no new
   WINDOW, no cell painted. *)
C4_ThrowLeavesParentUnmodified ==
  [][(last'.op \in {"createWindow", "addText"} /\ last'.result = "CursesException")
       => (wins' = wins /\ cells' = cells)]_vars

(* C4, witness: addText has thrown on a bordered window that holds a text. *)
C4_Witness ==
  /\ last = Called("addText", "CursesException")
  /\ \E w \in Windows : wins[w].m_border /\ LiveTexts(wins[w]) # {}

(* C5: removeText(name) ends with an error whenever no text is registered
   under name in that window. *)
C5_RemoveUnknownFails ==
  [][\A w \in Windows, name \in Names :
       (removeText(w, name) /\ Named(wins[w], name) = {})
         => last'.result = "CursesException"]_vars

(* C6: after removeText(name) has returned for a registered name, the window
   holds one text fewer, none of that name, and every other text is still
   registered, live, with its name, coordinate and content. *)
C6_RemoveErasesTheNamedText ==
  [][\A w \in Windows, name \in Names :
       (removeText(w, name) /\ Named(wins[w], name) # {} /\ last'.result = "ok")
         => LET old == wins[w].m_texts
                new == wins'[w].m_texts
            IN /\ Len(new) = Len(old) - 1
               /\ \A i \in 1..Len(new) : ~new[i].null /\ new[i].m_name # name
               /\ \A i \in 1..Len(old) :
                    old[i].m_name # name => \E j \in 1..Len(new) : new[j] = old[i]]_vars

(* the names of the direct children of a window, one entry per child *)
ChildNames(w) ==
  [i \in 1..Len(wins[w].m_subwindows) |-> wins[wins[w].m_subwindows[i]].m_name]
    \o [i \in 1..Len(wins[w].m_texts) |->
          IF wins[w].m_texts[i].null THEN "" ELSE wins[w].m_texts[i].m_name]

(* C7: no two direct children of a window share a name. *)
C7_SiblingNamesUnique ==
  \A w \in Windows :
    \A i, j \in 1..Len(ChildNames(w)) :
      (i # j /\ ChildNames(w)[i] # "") => ChildNames(w)[i] # ChildNames(w)[j]

(* C8: update() on a window refreshes that window and every window below it
   exactly once and no other; a window is synchronized and refreshed only
   after every window below it; the subtrees of siblings are handled whole,
   one after the other, in insertion order. *)
C8_UpdateChildrenFirst ==
  (last.op = "update") =>
    LET root == calls[Len(calls)].w
        T == Subtree(wins, root)
    IN /\ \A i \in 1..Len(calls) : calls[i].w \in T
       /\ \A v \in T :
            /\ Cardinality(CallsOf("wsyncup", v)) = 1
            /\ Cardinality(CallsOf("wrefresh", v)) = 1
            /\ At("wrefresh", v) = At("wsyncup", v) + 1
       /\ \A v \in T : \A d \in Subtree(wins, v) \ {v} :
            At("wrefresh", d) < At("wsyncup", v)
       /\ \A v \in T : \A j, k \in 1..Len(wins[v].m_subwindows) :
            j < k => \A d1 \in Subtree(wins, wins[v].m_subwindows[j]),
                        d2 \in Subtree(wins, wins[v].m_subwindows[k]) :
                       At("wrefresh", d1) < At("wsyncup", d2)

(* C8, witness: update() has run on the Screen of a tree two levels deep. *)
C8_Witness ==
  /\ last.op = "update"
  /\ calls[Len(calls)].w = 1
  /\ \E c \in Windows : \E g \in Windows :
       /\ \E i \in 1..Len(wins[1].m_subwindows) : wins[1].m_subwindows[i] = c
       /\ \E i \in 1..Len(wins[c].m_subwindows) : wins[c].m_subwindows[i] = g

(* C9: when the Screen is destroyed, the WINDOW of every window below a
   window is deleted before that window's own, and all of them before the
   terminal is released. *)
C9_ChildSurfacesDestroyedFirst ==
  (last.op = "~Screen") =>
    /\ \A v \in Windows : \A d \in Subtree(wins, v) \ {v} :
         wins[d].m_window.ok => At("delwin", d) < At("delwin", v)
    /\ \A d \in Windows \ {1} :
         wins[d].m_window.ok => At("delwin", d) < At("endwin", 1)

(* C10: removeText(name) changes no cell but those of the texts registered
   under name; with no text of that name it changes no cell. *)
C10_RemoveTouchesOnlyTheNamedText ==
  [][\A w \in Windows, name \in Names :
       (removeText(w, name) /\ last'.result = "ok")
         => \A rc \in Changed :
              \E i \in Named(wins[w], name) : rc \in TextCells(wins[w], wins[w].m_texts[i])]_vars

====
